---- MODULE Spec2Model ----
(***************************************************************************)
(* A model of convert_image_to_pdf (src/app.py, lines 10-59) and of the    *)
(* filesystem it reads and writes.                                         *)
(*                                                                         *)
(* The filesystem holds the input paths (each absent, a directory or a     *)
(* regular file with some contents) and one chain of nested output         *)
(* directories d1/d2/...; the output path of depth k is the file o.pdf in  *)
(* the k-th directory of the chain (depth 0: a bare file name, whose       *)
(* dirname is empty).  Every process runs one call, one source statement   *)
(* per step.  Spec runs a single caller (the GUI of src/app.py is single   *)
(* threaded); SpecConc runs two callers against the same filesystem.       *)
(***************************************************************************)
EXTENDS Integers, Sequences, FiniteSets, TLC

\* ---------------------------------------------------------------- bounds
\* Depth of the deepest output directory chain.
MaxDepth == 2
\* Largest image payload (in bytes of the model) a valid image carries.
MaxImg == 2

Procs == {1, 2}
\* Each caller converts an image of its own.
InPaths == {"in1", "in2"}
PathOf(p) == IF p = 1 THEN "in1" ELSE "in2"
OutPaths == 0..MaxDepth

\* ------------------------------------------------------ filesystem values
Absent == [type |-> "absent", kind |-> "none", n |-> 0]
Dir == [type |-> "dir", kind |-> "none", n |-> 0]
File(kind, n) == [type |-> "file", kind |-> kind, n |-> n]

\* text : not an image at all (a text file renamed .jpg)
\* trunc: the header identifies a format, the structure is broken
\* alpha: a well-formed image the embedder refuses (alpha channel, colorspace)
\* image: a well-formed, embeddable image with n payload bytes
Entries ==
    {Absent, Dir, File("text", 0), File("trunc", 0), File("alpha", 0)}
        \cup {File("image", n) : n \in 1..MaxImg}

NoFile == [exists |-> FALSE, bytes |-> <<>>]
OldBytes == [i \in 1..(MaxImg + 3) |-> <<"old", 0, i>>]
OldFile == [exists |-> TRUE, bytes |-> OldBytes]
ZeroByte == <<"zero", 0, 0>>

\* img2pdf.convert for an embeddable image: header, the image stream
\* verbatim, trailer.
Convert(e) ==
    <<(<<"%PDF", 0, 0>>)>> \o [i \in 1..e.n |-> <<"img", e.n, i>>]
        \o <<(<<"%%EOF", 0, 0>>)>>

\* os.path.isfile
IsFile_NotDir(e) == e.type # "dir"
IsFile(e) == e.type = "file"

\* open(path, "wb") on a path that can be opened: create or truncate.
OpenWithoutTruncate(f) == [exists |-> TRUE, bytes |-> f.bytes]
OpenForWrite(f) == [exists |-> TRUE, bytes |-> <<>>]

\* write(2) of bs at offset off of a regular file: a gap is zero filled.
WriteAt(f, off, bs) ==
    LET len == IF off + Len(bs) > Len(f.bytes) THEN off + Len(bs)
               ELSE Len(f.bytes)
    IN [exists |-> TRUE,
        bytes |-> [i \in 1..len |->
                     IF i > off /\ i <= off + Len(bs) THEN bs[i - off]
                     ELSE IF i <= Len(f.bytes) THEN f.bytes[i]
                     ELSE ZeroByte]]

\* ------------------------------------------------------------- messages
Success(ip, op) ==
    [ok |-> TRUE, category |-> "Success", path |-> ip, detail |-> "none"]
Failure(cat, path, detail) ==
    [ok |-> FALSE, category |-> cat, path |-> path, detail |-> detail]
NoResult == [ok |-> FALSE, category |-> "none", path |-> "none", detail |-> "none"]

\* The exception classes the stages raise; all derive from Exception.
OSErrors == {"FileNotFoundError", "IsADirectoryError", "PermissionError",
             "FileExistsError", "OSError"}
DecodeErrors == {"UnidentifiedImageError", "SyntaxError"}

\* The except clauses of the inner try (lines 30-35).
InnerHandler_OnlyUnidentified(ip, e) ==
    CASE e = "FileNotFoundError" -> Failure("NotFound", ip, "none")
      [] e = "IsADirectoryError" -> Failure("IsDirectory", ip, "none")
      [] e = "UnidentifiedImageError" -> Failure("Corrupt", ip, e)
      [] OTHER -> Failure("Unexpected", "none", e)
InnerHandler(ip, e) ==
    CASE e = "FileNotFoundError" -> Failure("NotFound", ip, "none")
      [] e = "IsADirectoryError" -> Failure("IsDirectory", ip, "none")
      [] OTHER -> Failure("Corrupt", ip, e)

\* The except clauses of the outer try (lines 56-59).  "Raised" stands for
\* an exception no clause catches, which leaves the call.
Raised(e) == [ok |-> FALSE, category |-> "Raised", path |-> "none", detail |-> e]
OuterHandler_Narrow(ip, e) ==
    CASE e = "ImageOpenError" -> Failure("EmbedError", ip, e)
      [] e \in OSErrors -> Failure("Unexpected", "none", e)
      [] OTHER -> Raised(e)
OuterHandler(ip, e) ==
    CASE e = "ImageOpenError" -> Failure("EmbedError", ip, e)
      [] OTHER -> Failure("Unexpected", "none", e)

\* ---------------------------------------------------------------- state
VARIABLES
    input,       \* input path -> entry
    dirLevel,    \* how many directories of the output chain exist
    denyLevel,   \* the OS refuses to create the directory of this depth
    file,        \* output path -> [exists, bytes]
    pc,          \* process -> position in convert_image_to_pdf
    image_path, pdf_path,
    img,         \* process -> the entry Image.open has read
    img_file,    \* process -> the entry open(image_path, "rb") opened
    handle,      \* process -> "none" | "open" | "closed": the fd of img
    pdf_bytes,   \* process -> the embedder's output
    off,         \* process -> offset of its output file description
    result,      \* process -> the (success, message) pair returned
    stages,      \* process -> the stages entered, in order
    failed,      \* process -> the stage that failed, or "none"
    seen,        \* process -> the input entry the isfile check saw
    snap         \* process -> the output filesystem when the call began

vars == <<input, dirLevel, denyLevel, file, pc, image_path, pdf_path, img,
          img_file, handle, pdf_bytes, off, result, stages, failed, seen, snap>>

fsOut == <<dirLevel, denyLevel, file>>
locals == <<img, img_file, handle, pdf_bytes, off>>

Init ==
    /\ input \in [InPaths -> Entries]
    /\ dirLevel \in 0..MaxDepth
    /\ denyLevel \in 1..(MaxDepth + 1)
    /\ denyLevel > dirLevel
    /\ file \in [OutPaths -> {NoFile, OldFile}]
    /\ \A k \in OutPaths : k > dirLevel => file[k] = NoFile
    /\ pc = [p \in Procs |-> "idle"]
    /\ image_path = [p \in Procs |-> "in1"]
    /\ pdf_path = [p \in Procs |-> 0]
    /\ img = [p \in Procs |-> Absent]
    /\ img_file = [p \in Procs |-> Absent]
    /\ handle = [p \in Procs |-> "none"]
    /\ pdf_bytes = [p \in Procs |-> <<>>]
    /\ off = [p \in Procs |-> 0]
    /\ result = [p \in Procs |-> NoResult]
    /\ stages = [p \in Procs |-> <<>>]
    /\ failed = [p \in Procs |-> "none"]
    /\ seen = [p \in Procs |-> Absent]
    /\ snap = [p \in Procs |-> [dirLevel |-> 0, file |-> [k \in OutPaths |-> NoFile]]]

\* return <result>, the call having failed in <stage> ("none": success)
Return(p, res, stage) ==
    /\ pc' = [pc EXCEPT ![p] = IF res.category = "Raised" THEN "raised" ELSE "done"]
    /\ result' = [result EXCEPT ![p] = res]
    /\ failed' = [failed EXCEPT ![p] = stage]

Goto(p, label) ==
    /\ pc' = [pc EXCEPT ![p] = label]
    /\ UNCHANGED <<result, failed>>

\* -------------------------------------------------------------- actions
\* The caller invokes convert_image_to_pdf(image_path, pdf_path).
Call(p) ==
    /\ pc[p] = "idle"
    /\ image_path' = [image_path EXCEPT ![p] = PathOf(p)]
    /\ \E op \in OutPaths : pdf_path' = [pdf_path EXCEPT ![p] = op]
    /\ snap' = [snap EXCEPT ![p] = [dirLevel |-> dirLevel, file |-> file]]
    /\ Goto(p, "isfile")
    /\ UNCHANGED <<input, fsOut, locals, stages, seen>>

\* line 23-24: if not os.path.isfile(image_path): return False, ...
CheckIsFile(p) ==
    /\ pc[p] = "isfile"
    /\ seen' = [seen EXCEPT ![p] = input[image_path[p]]]
    /\ stages' = [stages EXCEPT ![p] = Append(@, "validate")]
    /\ IF IsFile(input[image_path[p]])
       THEN Goto(p, "open")
       ELSE Return(p, Failure("NotAFile", image_path[p], "none"), "validate")
    /\ UNCHANGED <<input, fsOut, image_path, pdf_path, locals, snap>>

\* line 27: img = Image.open(image_path), with the handlers of lines 30-35.
\* The path is looked up again: it may have changed since the isfile check.
ImageOpen(p) ==
    /\ pc[p] = "open"
    /\ LET e == input[image_path[p]] IN
       \/ /\ e.type = "file" /\ e.kind \in {"trunc", "alpha", "image"}
          /\ img' = [img EXCEPT ![p] = e]
          /\ handle' = [handle EXCEPT ![p] = "open"]
          /\ Goto(p, "verify")
       \/ /\ \E x \in (CASE e.type = "absent" -> {"FileNotFoundError"}
                         [] e.type = "dir" -> {"IsADirectoryError"}
                         [] e.kind = "text" -> {"UnidentifiedImageError"}
                         [] OTHER -> {"PermissionError"}) :
                Return(p, InnerHandler(image_path[p], x), "validate")
          \* Image.open has read the contents only when it is the decoder
          \* that refuses them, and it closes the file it opened itself
          /\ img' = IF e.kind = "text" THEN [img EXCEPT ![p] = e] ELSE img
          /\ UNCHANGED handle
    /\ UNCHANGED <<input, fsOut, image_path, pdf_path, img_file, pdf_bytes, off, stages,
                   seen, snap>>

\* line 28: img.verify().  When it raises, line 29 is skipped: nothing closes
\* img, and its file stays open until the runtime finalizes the object.
ImageVerify(p) ==
    /\ pc[p] = "verify"
    /\ IF img[p].kind = "trunc"
       THEN /\ Return(p, InnerHandler(image_path[p], "SyntaxError"), "validate")
            /\ \E h \in {"open", "closed"} : handle' = [handle EXCEPT ![p] = h]
       ELSE /\ Goto(p, "close")
            /\ UNCHANGED handle
    /\ UNCHANGED <<input, fsOut, image_path, pdf_path, img, img_file, pdf_bytes, off,
                   stages, seen, snap>>

\* line 29: img.close()
ImageClose(p) ==
    /\ pc[p] = "close"
    /\ handle' = [handle EXCEPT ![p] = "closed"]
    /\ Goto(p, "exists")
    /\ UNCHANGED <<input, fsOut, image_path, pdf_path, img, img_file, pdf_bytes, off,
                   stages, seen, snap>>

\* lines 38-39: output_dir = dirname(pdf_path);
\*              if output_dir and not os.path.exists(output_dir)
CheckOutputDir(p) ==
    /\ pc[p] = "exists"
    /\ stages' = [stages EXCEPT ![p] = Append(@, "mkdir")]
    /\ IF pdf_path[p] > 0 /\ dirLevel < pdf_path[p]
       THEN Goto(p, "makedirs")
       ELSE Goto(p, "readin")
    /\ UNCHANGED <<input, fsOut, image_path, pdf_path, locals, seen, snap>>

\* lines 40-43: os.makedirs(output_dir), which creates the missing ancestors
\* first and raises FileExistsError when the leaf exists by now.
MakeDirs_Mkdir(p) ==
    /\ pc[p] = "makedirs"
    /\ IF dirLevel = pdf_path[p] - 1 /\ denyLevel > pdf_path[p]
       THEN /\ dirLevel' = pdf_path[p]
            /\ Goto(p, "readin")
       ELSE /\ UNCHANGED dirLevel
            /\ Return(p, Failure("DirectoryCreationError", "dir", "OSError"), "mkdir")
    /\ UNCHANGED <<input, denyLevel, file, image_path, pdf_path, locals, stages,
                   seen, snap>>
MakeDirs(p) ==
    /\ pc[p] = "makedirs"
    /\ IF dirLevel >= pdf_path[p]
       THEN /\ UNCHANGED dirLevel
            /\ Return(p, Failure("DirectoryCreationError", "dir", "FileExistsError"),
                      "mkdir")
       ELSE IF denyLevel <= pdf_path[p]
       THEN /\ dirLevel' = denyLevel - 1
            /\ Return(p, Failure("DirectoryCreationError", "dir", "PermissionError"),
                      "mkdir")
       ELSE /\ dirLevel' = pdf_path[p]
            /\ Goto(p, "readin")
    /\ UNCHANGED <<input, denyLevel, file, image_path, pdf_path, locals, stages,
                   seen, snap>>

\* line 48: with open(image_path, "rb") as img_file.  An OSError here is
\* caught by the outer handlers only.
ReadInput(p) ==
    /\ pc[p] = "readin"
    /\ stages' = [stages EXCEPT ![p] = Append(@, "embed")]
    /\ LET e == input[image_path[p]] IN
       \/ /\ e.type = "file"
          /\ img_file' = [img_file EXCEPT ![p] = e]
          /\ Goto(p, "embed")
       \/ /\ \E x \in (CASE e.type = "absent" -> {"FileNotFoundError"}
                         [] e.type = "dir" -> {"IsADirectoryError"}
                         [] OTHER -> {"PermissionError"}) :
                Return(p, OuterHandler(image_path[p], x), "embed")
          /\ UNCHANGED img_file
    /\ UNCHANGED <<input, fsOut, image_path, pdf_path, img, handle, pdf_bytes,
                   off, seen, snap>>

\* line 49: pdf_bytes = img2pdf.convert(img_file).  img2pdf raises
\* ImageOpenError when it cannot read the image at all and other exceptions
\* (AlphaChannelError, MemoryError, ...) for images it reads and refuses.
EmbedImage(p) ==
    /\ pc[p] = "embed"
    /\ LET e == img_file[p] IN
       \/ /\ e.kind = "image"
          /\ pdf_bytes' = [pdf_bytes EXCEPT ![p] = Convert(e)]
          /\ Goto(p, "openout")
       \/ /\ \E x \in (CASE e.kind = "image" -> {"MemoryError"}
                         [] e.kind = "alpha" -> {"AlphaChannelError"}
                         [] OTHER -> {"ImageOpenError"}) :
                Return(p, OuterHandler(image_path[p], x), "embed")
          /\ UNCHANGED pdf_bytes
    /\ UNCHANGED <<input, fsOut, image_path, pdf_path, img, img_file, handle,
                   off, stages, seen, snap>>

\* line 51: with open(pdf_path, "wb") as pdf_file: the file is created or
\* truncated at once, before anything is written.
OpenOutput(p) ==
    /\ pc[p] = "openout"
    /\ stages' = [stages EXCEPT ![p] = Append(@, "write")]
    /\ \/ /\ dirLevel >= pdf_path[p]
          /\ file' = [file EXCEPT ![pdf_path[p]] = OpenForWrite(@)]
          /\ off' = [off EXCEPT ![p] = 0]
          /\ Goto(p, "write")
       \/ /\ Return(p, OuterHandler(image_path[p], "PermissionError"), "write")
          /\ UNCHANGED <<file, off>>
    /\ UNCHANGED <<input, dirLevel, denyLevel, image_path, pdf_path, img,
                   img_file, handle, pdf_bytes, seen, snap>>

\* line 52: pdf_file.write(pdf_bytes) and the flush at the end of the with
\* block: the buffered writer issues write(2) calls at the file
\* description's own offset until every byte is out.
WriteOutput(p) ==
    /\ pc[p] = "write"
    /\ \E k \in 1..(Len(pdf_bytes[p]) - off[p]) :
        /\ file' = [file EXCEPT ![pdf_path[p]] =
                       WriteAt(@, off[p], SubSeq(pdf_bytes[p], off[p] + 1, off[p] + k))]
        /\ off' = [off EXCEPT ![p] = off[p] + k]
        /\ Goto(p, IF off[p] + k = Len(pdf_bytes[p]) THEN "closeout" ELSE "write")
    /\ UNCHANGED <<input, dirLevel, denyLevel, image_path, pdf_path, img,
                   img_file, handle, pdf_bytes, stages, seen, snap>>

\* line 52: a write(2) fails (disk full, I/O error); the with block closes
\* the file as it is and the outer handler returns.
WriteFails(p) ==
    /\ pc[p] = "write"
    /\ Return(p, OuterHandler(image_path[p], "OSError"), "write")
    /\ UNCHANGED <<input, fsOut, image_path, pdf_path, locals, stages, seen, snap>>

\* line 54: return True, ...
ReturnSuccess(p) ==
    /\ pc[p] = "closeout"
    /\ Return(p, Success(image_path[p], pdf_path[p]), "none")
    /\ UNCHANGED <<input, fsOut, image_path, pdf_path, locals, stages, seen, snap>>

\* Another program replaces what the input path of a running call refers
\* to.  The call looks the path up at lines 23, 27 and 48; a replacement is
\* taken just before one of these lookups, where it is first seen.  (Before
\* the call Init has drawn every entry already; after line 48 nothing reads
\* the path.)
EnvChangeInput ==
    /\ \E ip \in InPaths, e \in Entries :
        /\ \E p \in Procs : pc[p] \in {"isfile", "open", "readin"} /\ image_path[p] = ip
        /\ e # input[ip]
        /\ input' = [input EXCEPT ![ip] = e]
    /\ UNCHANGED <<fsOut, pc, image_path, pdf_path, locals, result, stages,
                   failed, seen, snap>>

Step(p) ==
    \/ Call(p) \/ CheckIsFile(p) \/ ImageOpen(p) \/ ImageVerify(p)
    \/ ImageClose(p) \/ CheckOutputDir(p) \/ MakeDirs(p) \/ ReadInput(p)
    \/ EmbedImage(p) \/ OpenOutput(p) \/ WriteOutput(p) \/ WriteFails(p)
    \/ ReturnSuccess(p)

\* One caller, as the GUI and the command line issue calls; the second
\* caller's image is not there.
InitOne == Init /\ input[PathOf(2)] = Absent
Next == Step(1) \/ EnvChangeInput
Spec == InitOne /\ [][Next]_vars

\* Two callers at once, each with a valid image nobody replaces.
InitConc == Init /\ \A ip \in InPaths : input[ip].kind = "image"
NextConc == \E p \in Procs : Step(p)
SpecConc == InitConc /\ [][NextConc]_vars

\* ------------------------------------------------------------ properties
Done(p) == pc[p] = "done"
InCall(p) == pc[p] \notin {"idle", "done", "raised"}
OutputUntouched(p) == dirLevel = snap[p].dirLevel /\ file = snap[p].file
StageOrder == <<"validate", "mkdir", "embed", "write">>

\* C1: whatever stage fails and however, the call ends by returning a
\* (success, message) pair with success false; no exception leaves the call,
\* and a call under way can always take its next step.
C1_NoErrorEscapes ==
    \A p \in Procs :
        /\ pc[p] # "raised"
        /\ Done(p) => /\ result[p].category \notin {"Raised", "none"}
                      /\ (failed[p] # "none") <=> ~result[p].ok
        /\ InCall(p) => ENABLED Step(p)
\* an exception that is neither an OSError nor img2pdf's ImageOpenError was
\* raised by the embedder and came back as a failure result
C1_Witness ==
    \E p \in Procs :
        Done(p) /\ failed[p] = "embed" /\ ~result[p].ok
            /\ result[p].detail = "MemoryError"

\* C2: a directory passed as input_path is reported as IsDirectory, not as
\* NotAFile.
C2_DirectoryReportedAsDirectory ==
    \A p \in Procs :
        (Done(p) /\ seen[p].type = "dir") => result[p].category = "IsDirectory"

\* C3: a regular file whose contents the decoder refuses yields a Corrupt
\* failure naming the path and carrying the decoder's detail, and the output
\* side of the filesystem is as it was: no directory made, no file created
\* or truncated.
C3_CorruptLeavesOutputAlone ==
    \A p \in Procs :
        (Done(p) /\ img[p].kind \in {"text", "trunc"}) =>
            /\ ~result[p].ok
            /\ result[p].category = "Corrupt"
            /\ result[p].path = image_path[p]
            /\ result[p].detail \in DecodeErrors
            /\ OutputUntouched(p)
            /\ pdf_bytes[p] = <<>>
\* a broken image was refused although the output directory was missing and
\* an old file sat at another output path
C3_Witness ==
    \E p \in Procs :
        /\ Done(p) /\ img[p].kind = "trunc" /\ result[p].category = "Corrupt"
        /\ pdf_path[p] = MaxDepth /\ dirLevel < MaxDepth
        /\ file[0] = OldFile

\* C4: after a call that fails, the file at output_path is absent, as it was
\* before the call, or the complete PDF.
C4_NoPartialOutput ==
    \A p \in Procs :
        (Done(p) /\ ~result[p].ok) =>
            \/ ~file[pdf_path[p]].exists
            \/ file[pdf_path[p]] = snap[p].file[pdf_path[p]]
            \/ /\ pdf_bytes[p] # <<>>
               /\ file[pdf_path[p]].bytes = pdf_bytes[p]

\* C5: an input path that does not exist yields the NotAFile failure naming
\* it; the image is never opened, no directory is made and the output path
\* is not touched.
C5_MissingInput ==
    \A p \in Procs :
        (Done(p) /\ seen[p].type = "absent") =>
            /\ result[p] = Failure("NotAFile", image_path[p], "none")
            /\ stages[p] = <<"validate">>
            /\ handle[p] = "none" /\ img[p] = Absent /\ img_file[p] = Absent
            /\ OutputUntouched(p)
C5_Witness ==
    \E p \in Procs :
        /\ Done(p) /\ seen[p].type = "absent"
        /\ result[p].category = "NotAFile"
        /\ pdf_path[p] > dirLevel

\* C6: with a validated input and an output directory that does not exist,
\* the whole chain of directories is created and, unless a later stage
\* fails, the PDF is written and success returned; when the chain cannot be
\* created the call returns DirectoryCreationError and neither embeds nor
\* writes.
C6_DirectoryChain ==
    \A p \in Procs :
        (Done(p) /\ Len(stages[p]) >= 2 /\ snap[p].dirLevel < pdf_path[p]) =>
            IF denyLevel > pdf_path[p]
            THEN /\ failed[p] # "mkdir"
                 /\ dirLevel >= pdf_path[p]
                 /\ failed[p] = "none" =>
                        /\ result[p].ok
                        /\ file[pdf_path[p]] =
                               [exists |-> TRUE, bytes |-> Convert(img_file[p])]
            ELSE /\ failed[p] = "mkdir"
                 /\ ~result[p].ok
                 /\ result[p].category = "DirectoryCreationError"
                 /\ stages[p] = <<"validate", "mkdir">>
                 /\ img_file[p] = Absent /\ pdf_bytes[p] = <<>>
                 /\ file = snap[p].file
\* no directory of a chain of MaxDepth existed, and the PDF is in the deepest
C6_Witness ==
    \E p \in Procs :
        /\ Done(p) /\ result[p].ok
        /\ snap[p].dirLevel = 0 /\ pdf_path[p] = MaxDepth /\ MaxDepth >= 2
        /\ dirLevel = MaxDepth
        /\ file[MaxDepth].bytes = Convert(img_file[p])

\* C7: once validation is over, however it ended, the file Image.open
\* opened is closed.
C7_HandleReleased ==
    \A p \in Procs :
        pc[p] \notin {"idle", "isfile", "open", "verify", "close"} =>
            handle[p] # "open"

\* C8: the failure names the stage: every embedding failure is an EmbedError,
\* every failure to open or write the output a WriteError, and neither
\* category is used for another stage.
C8_CategoryNamesStage ==
    \A p \in Procs :
        (Done(p) /\ ~result[p].ok) =>
            /\ (failed[p] = "embed") <=> (result[p].category = "EmbedError")
            /\ (failed[p] = "write") <=> (result[p].category = "WriteError")

\* C9: the stages run in the order validate, mkdir, embed, write; the stage
\* that fails is the last one entered, a stage not entered has had no
\* effect, and success is returned only with the complete PDF at
\* output_path, whatever was there before.
C9_StageOrder ==
    \A p \in Procs :
        pc[p] # "idle" =>
            /\ stages[p] = SubSeq(StageOrder, 1, Len(stages[p]))
            /\ (Done(p) /\ failed[p] # "none") =>
                   stages[p][Len(stages[p])] = failed[p]
            /\ Len(stages[p]) < 2 => dirLevel = snap[p].dirLevel
            /\ Len(stages[p]) < 3 => img_file[p] = Absent /\ pdf_bytes[p] = <<>>
            /\ Len(stages[p]) < 4 => file = snap[p].file
            /\ result[p].ok =>
                   /\ Done(p) /\ stages[p] = StageOrder
                   /\ img_file[p].kind = "image"
                   /\ pdf_bytes[p] = Convert(img_file[p])
                   /\ file[pdf_path[p]] = [exists |-> TRUE, bytes |-> pdf_bytes[p]]
\* success over a file that was already at output_path
C9_Witness ==
    \E p \in Procs :
        /\ Done(p) /\ result[p].ok
        /\ snap[p].file[pdf_path[p]] = OldFile
        /\ file[pdf_path[p]].bytes = Convert(img_file[p])

\* C10: when two conversions of valid images into the same output_path have
\* both returned success, the file holds exactly the PDF of one of them.
C10_LastWriteWins ==
    (/\ Done(1) /\ Done(2) /\ result[1].ok /\ result[2].ok
     /\ pdf_path[1] = pdf_path[2]) =>
        file[pdf_path[1]].bytes \in {pdf_bytes[1], pdf_bytes[2]}
====
